---- MODULE Spec2Model ----
(***************************************************************************)
(* AskPOTATO: the question pipeline of src/app.py (ask) and src/askpotato. *)
(*                                                                         *)
(*   normalizer.py  normalize_question : question -> intent label          *)
(*   detector.py    detect_intent      : label -> label or UNKNOWN         *)
(*   retrieval.py   five handlers over the scenarios/steps/defects/proofs  *)
(*                  tables                                                 *)
(*   explainer.py   explain_with_ai and its lru_cache                      *)
(*                                                                         *)
(* A Python str is a sequence of one-character strings, so that strip,     *)
(* upper and re.sub are computed character by character.                   *)
(***************************************************************************)
EXTENDS Integers, Sequences, FiniteSets, TLC

VARIABLES
    op,            \* name of the operation that ran last
    raw,           \* text under construction: a service response / a candidate label
    edits,         \* number of edits applied to raw
    normalized,    \* value returned by the last normalize_question call
    norm_raised,   \* TRUE when an exception left the last normalize_question call
    norm_outcome,  \* what the text-generation service did in that call
    detected,      \* value returned by the last detect_intent call
    detect_arg,    \* argument of the last detect_intent call
    scenarios,     \* table scenarios: rows in rowid order
    steps,         \* table steps
    defects,       \* table defects
    proofs,        \* table proofs
    now,           \* the clock datetime('now') reads, in seconds
    data,          \* structured result of the last retrieval handler call
    handler_raised,\* TRUE when an exception left that call
    db_error,      \* where the storage layer failed in that call (0: nowhere)
    repeated,      \* TRUE when that call came right after a call of the same handler
    cache,         \* the lru_cache of _cached_ai_call, least recently used first
    service_calls, \* requests explain_with_ai has sent to the service so far
    explained,     \* text returned by the last explain_with_ai call
    explain_raised,\* TRUE when an exception left that call
    explain_req,   \* its arguments (question, intent, data)
    explain_called,\* TRUE when that call sent a request to the service
    explain_outcome, \* what the service did with that request
    answers,       \* observed: the text each request with data got last
    nodata_msgs,   \* observed: the (intent, text) pairs of the calls without data
    uses,          \* observed: the prompts looked up so far, the latest use last
    threads,       \* the concurrent calls of _cached_ai_call, one per request thread
    lock,          \* the thread inside the cache's critical section, 0 for none
    produced,      \* observed: the (prompt, text) pairs the calls computed
    response,      \* text the last ask() gave to its template
    ask_raised,    \* TRUE when an exception left that ask()
    ask_question,  \* its question
    stages         \* the stages it reached: <<connected, retrieved, rendered>>

intentVars == <<raw, edits, normalized, norm_raised, norm_outcome, detected, detect_arg>>

storeVars == <<scenarios, steps, defects, proofs, now>>

retrievalVars == <<data, handler_raised, db_error, repeated>>

explainVars ==
    <<cache, service_calls, explained, explain_raised, explain_req,
      explain_called, explain_outcome, answers, nodata_msgs, uses,
      threads, lock, produced>>

askVars == <<response, ask_raised, ask_question, stages>>

notIntentVars == <<storeVars, retrievalVars, explainVars, askVars>>

notStoreVars == <<intentVars, retrievalVars, explainVars, askVars>>

notExplainVars == <<intentVars, storeVars, retrievalVars, askVars>>

vars == <<op, intentVars, storeVars, retrievalVars, explainVars, askVars>>

(***************************************************************************)
(* Bounds                                                                  *)
(***************************************************************************)
\* edits (insert, delete, lower-case one character) applied to a base text
MaxEdits == 1

\* rows per table
MaxScenarios == 2

MaxDefects == 3

MaxProofs == 2

\* steps created with a scenario (config.py sets DEFAULT_STEPS_COUNT = 10)
StepsPerScenario == 2

\* seconds the clock can advance
MaxTime == 1

\* entries the explanation cache holds (explainer.py sets maxsize=100)
CacheMaxSize == 2

\* values hash(prompt) can take
HashMod == 2

\* requests explain_with_ai sends to the service in one run
MaxServiceCalls == 3

(***************************************************************************)
(* Strings                                                                 *)
(***************************************************************************)
Lowers ==
    <<"a", "b", "c", "d", "e", "f", "g", "h", "i", "j", "k", "l", "m",
      "n", "o", "p", "q", "r", "s", "t", "u", "v", "w", "x", "y", "z">>

Uppers ==
    <<"A", "B", "C", "D", "E", "F", "G", "H", "I", "J", "K", "L", "M",
      "N", "O", "P", "Q", "R", "S", "T", "U", "V", "W", "X", "Y", "Z">>

\* the characters str.strip() removes from both ends
Whitespace == {" ", "\n", "\t"}

\* "eszett" stands for the one character U+00DF, whose upper case is "SS"
NoiseChars == {" ", "!", "x", "eszett"}

IndexIn(c, s) == CHOOSE i \in 1..Len(s) : s[i] = c

\* str.upper() of one character: a sequence, because it may grow
UpperChar(c) ==
    IF \E i \in 1..Len(Lowers) : Lowers[i] = c
    THEN <<Uppers[IndexIn(c, Lowers)]>>
    ELSE IF c = "eszett" THEN <<"S", "S">> ELSE <<c>>

LowerChar(c) ==
    IF \E i \in 1..Len(Uppers) : Uppers[i] = c
    THEN Lowers[IndexIn(c, Uppers)]
    ELSE c

RECURSIVE str_upper(_)
str_upper(s) ==
    IF s = <<>> THEN <<>> ELSE UpperChar(Head(s)) \o str_upper(Tail(s))

RECURSIVE lstrip(_)
lstrip(s) ==
    IF s # <<>> /\ Head(s) \in Whitespace THEN lstrip(Tail(s)) ELSE s

RECURSIVE rstrip(_)
rstrip(s) ==
    IF s # <<>> /\ s[Len(s)] \in Whitespace
    THEN rstrip(SubSeq(s, 1, Len(s) - 1))
    ELSE s

str_strip(s) == rstrip(lstrip(s))

\* the character class [A-Z_]
InClass_AZ_(c) == c = "_" \/ \E i \in 1..Len(Uppers) : Uppers[i] = c

\* re.sub(r"[^A-Z_]", "", s)
RECURSIVE re_sub_non_AZ_(_)
re_sub_non_AZ_(s) ==
    IF s = <<>> THEN <<>>
    ELSE (IF InClass_AZ_(Head(s)) THEN <<Head(s)>> ELSE <<>>)
             \o re_sub_non_AZ_(Tail(s))

(***************************************************************************)
(* The intent vocabulary                                                   *)
(***************************************************************************)
LIST_SCENARIOS ==
    <<"L", "I", "S", "T", "_", "S", "C", "E", "N", "A", "R", "I", "O", "S">>

MOST_DEFECTS_SCENARIO ==
    <<"M", "O", "S", "T", "_", "D", "E", "F", "E", "C", "T", "S", "_",
      "S", "C", "E", "N", "A", "R", "I", "O">>

OPEN_DEFECTS ==
    <<"O", "P", "E", "N", "_", "D", "E", "F", "E", "C", "T", "S">>

FAILED_STEPS ==
    <<"F", "A", "I", "L", "E", "D", "_", "S", "T", "E", "P", "S">>

NO_PROOF_STEPS ==
    <<"N", "O", "_", "P", "R", "O", "O", "F", "_", "S", "T", "E", "P", "S">>

UNKNOWN ==
    <<"U", "N", "K", "N", "O", "W", "N">>

\* a dict that lacks the last of the keys
INTENTS_four ==
    {LIST_SCENARIOS, MOST_DEFECTS_SCENARIO, OPEN_DEFECTS, FAILED_STEPS}

\* intents.py: the keys of the INTENTS dict
INTENTS ==
    {LIST_SCENARIOS, MOST_DEFECTS_SCENARIO, OPEN_DEFECTS, FAILED_STEPS,
     NO_PROOF_STEPS}

\* normalizer.py: the set the sanitized response is checked against
VALID_INTENTS ==
    {LIST_SCENARIOS, MOST_DEFECTS_SCENARIO, OPEN_DEFECTS, FAILED_STEPS,
     NO_PROOF_STEPS}

(***************************************************************************)
(* detector.py                                                             *)
(***************************************************************************)
\* a validator that trusts its caller
detect_intent_trusting(intent) == intent

detect_intent(intent) == IF intent \in INTENTS THEN intent ELSE UNKNOWN

(***************************************************************************)
(* normalizer.py                                                           *)
(***************************************************************************)
\* What the text-generation service can do with one request.
\*   ok            HTTP 200, JSON object with a string "response"
\*   no_key        HTTP 200, JSON object without "response"
\*   non_string    HTTP 200, "response" is not a string (null, a number)
\*   not_object    HTTP 200, the JSON body is not an object
\*   bad_json      HTTP 200, the body is not JSON
\*   http_error    a 4xx/5xx status
\*   timeout       requests.exceptions.Timeout
\*   connection    requests.exceptions.ConnectionError
FailureKinds ==
    {"no_key", "non_string", "not_object", "bad_json", "http_error",
     "timeout", "connection"}

Returned(v) == [raised |-> FALSE, exc |-> "", value |-> v]

Raised(e) == [raised |-> TRUE, exc |-> e, value |-> <<>>]

\* lines 51-75: the body of the try block
normalize_try(kind, text) ==
    CASE kind = "timeout" -> Raised("Timeout")
      [] kind = "connection" -> Raised("ConnectionError")
      [] kind = "http_error" -> Raised("HTTPError")
      [] kind = "bad_json" -> Raised("JSONDecodeError")
      [] kind = "not_object" -> Raised("AttributeError")
      [] kind = "non_string" -> Raised("AttributeError")
      [] OTHER ->
            LET rawtext == IF kind = "no_key" THEN <<>> ELSE text
                intent == re_sub_non_AZ_(str_upper(str_strip(rawtext)))
            IN  IF intent \in VALID_INTENTS
                THEN Returned(intent)
                ELSE Returned(UNKNOWN)

\* the exception classes an except clause naming cls catches
Catches(cls, exc) == cls = exc \/ cls = "Exception"

\* handlers without the final "except Exception"
normalize_except_narrow(r) ==
    IF ~r.raised THEN r
    ELSE IF Catches("Timeout", r.exc) THEN Returned(UNKNOWN)
    ELSE IF Catches("ConnectionError", r.exc) THEN Returned(UNKNOWN)
    ELSE r

\* lines 77-85: the except clauses, in order
normalize_except(r) ==
    IF ~r.raised THEN r
    ELSE IF Catches("Timeout", r.exc) THEN Returned(UNKNOWN)
    ELSE IF Catches("ConnectionError", r.exc) THEN Returned(UNKNOWN)
    ELSE IF Catches("Exception", r.exc) THEN Returned(UNKNOWN)
    ELSE r

\* sanitizing without upper-casing first
normalize_question_no_upper(kind, text) ==
    normalize_except(
        IF kind = "ok"
        THEN LET intent == re_sub_non_AZ_(str_strip(text))
             IN  IF intent \in VALID_INTENTS
                 THEN Returned(intent) ELSE Returned(UNKNOWN)
        ELSE normalize_try(kind, text))

normalize_question(kind, text) == normalize_except(normalize_try(kind, text))

(***************************************************************************)
(* Texts the service may answer with, and candidate labels                 *)
(***************************************************************************)
Ex_Punct ==
    <<"O", "p", "e", "n", "_", "D", "e", "f", "e", "c", "t", "s", "!", "!">>

Ex_Padded ==
    <<" ", " ", "O", "P", "E", "N", "_", "D", "E", "F", "E", "C", "T", "S",
      " ", "\n">>

Ex_Words ==
    <<"o", "p", "e", "n", " ", "d", "e", "f", "e", "c", "t", "s", " ",
      "p", "l", "e", "a", "s", "e">>

Ex_Lower ==
    <<"f", "a", "i", "l", "e", "d", "_", "s", "t", "e", "p", "s">>

Ex_Sentence ==
    <<"T", "h", "e", " ", "i", "n", "t", "e", "n", "t", " ", "i", "s", " ",
      "L", "I", "S", "T", "_", "S", "C", "E", "N", "A", "R", "I", "O", "S",
      ".">>

BaseTexts ==
    INTENTS \cup {UNKNOWN, <<>>, Ex_Punct, Ex_Padded, Ex_Words, Ex_Lower,
                  Ex_Sentence}

InsertAt(s, i, c) == SubSeq(s, 1, i) \o <<c>> \o SubSeq(s, i + 1, Len(s))

DeleteAt(s, i) == SubSeq(s, 1, i - 1) \o SubSeq(s, i + 1, Len(s))

(***************************************************************************)
(* Actions on texts                                                        *)
(***************************************************************************)
IntentInit ==
    /\ raw \in BaseTexts
    /\ edits = 0
    /\ normalized = <<>>
    /\ norm_raised = FALSE
    /\ norm_outcome = "none"
    /\ detected = <<>>
    /\ detect_arg = <<>>

EditInsert ==
    /\ op \in {"init", "edit"}
    /\ edits < MaxEdits
    /\ \E i \in 0..Len(raw), c \in NoiseChars : raw' = InsertAt(raw, i, c)
    /\ edits' = edits + 1
    /\ op' = "edit"
    /\ UNCHANGED <<normalized, norm_raised, norm_outcome, detected, detect_arg>>
    /\ UNCHANGED notIntentVars

EditDelete ==
    /\ op \in {"init", "edit"}
    /\ edits < MaxEdits
    /\ \E i \in 1..Len(raw) : raw' = DeleteAt(raw, i)
    /\ edits' = edits + 1
    /\ op' = "edit"
    /\ UNCHANGED <<normalized, norm_raised, norm_outcome, detected, detect_arg>>
    /\ UNCHANGED notIntentVars

EditLower ==
    /\ op \in {"init", "edit"}
    /\ edits < MaxEdits
    /\ \E i \in 1..Len(raw) :
          /\ LowerChar(raw[i]) # raw[i]
          /\ raw' = [raw EXCEPT ![i] = LowerChar(raw[i])]
    /\ edits' = edits + 1
    /\ op' = "edit"
    /\ UNCHANGED <<normalized, norm_raised, norm_outcome, detected, detect_arg>>
    /\ UNCHANGED notIntentVars

\* normalize_question(question) where the service answers HTTP 200 with the
\* JSON body {"response": raw}
NormalizeOk ==
    /\ op \in {"init", "edit"}
    /\ LET r == normalize_question("ok", raw)
       IN  /\ normalized' = r.value
           /\ norm_raised' = r.raised
    /\ norm_outcome' = "ok"
    /\ op' = "normalize"
    /\ UNCHANGED <<raw, edits, detected, detect_arg>>
    /\ UNCHANGED notIntentVars

\* normalize_question(question) where the service fails: there is no response
\* text, so the failures are tried on the unedited texts only
NormalizeFailure ==
    /\ op = "init"
    /\ \E kind \in FailureKinds :
          LET r == normalize_question(kind, raw)
          IN  /\ normalized' = r.value
              /\ norm_raised' = r.raised
              /\ norm_outcome' = kind
    /\ op' = "normalize"
    /\ UNCHANGED <<raw, edits, detected, detect_arg>>
    /\ UNCHANGED notIntentVars

\* detect_intent(raw): any string as the candidate
DetectRaw ==
    /\ op \in {"init", "edit"}
    /\ detect_arg' = raw
    /\ detected' = detect_intent(raw)
    /\ op' = "detect"
    /\ UNCHANGED <<raw, edits, normalized, norm_raised, norm_outcome>>
    /\ UNCHANGED notIntentVars

\* detect_intent(normalized), as ask calls it (app.py line 419)
DetectNormalized ==
    /\ op = "normalize"
    /\ ~norm_raised
    /\ detect_arg' = normalized
    /\ detected' = detect_intent(normalized)
    /\ op' = "detect"
    /\ UNCHANGED <<raw, edits, normalized, norm_raised, norm_outcome>>
    /\ UNCHANGED notIntentVars

(***************************************************************************)
(* The tracking store: init_db.py (schema) and the routes of app.py that   *)
(* write it.  Rows are kept in rowid order; ids are AUTOINCREMENT and no   *)
(* route deletes a row, so a row's id is its position.                     *)
(***************************************************************************)
\* validate_scenario_form wants at least 3 characters
ScenarioNames == {"Alpha", "Beta"}

\* the order of the names under SQLite's BINARY collation
NameRank(n) == IF n = "Alpha" THEN 1 ELSE 2

\* f"Step {i}"
StepName(i) == <<"Step ", i>>

\* update_step stores the status the form carries, whatever its case
StepStatuses == {"Not Started", "Failed", "failed"}

\* update_defect stores the status the form carries, whatever its case
DefectStatuses == {"Open", "Closed", "open"}

\* add_defect wants at least 5 characters
Titles == {"Crash on save"}

Reporters == {"ann"}

\* scenario ids a form can carry: those of the rows and one that no row has
\* (get_db_connection does not enable foreign keys, so any value is stored)
ScenarioIdInputs == 1..(MaxScenarios + 1)

\* step numbers a form can carry: those of the steps and one beyond
StepNumberInputs == 1..(StepsPerScenario + 1)

\* step numbers of the defects (no handler reads a defect's step number)
DefectStepNumbers == {1}

StoreInit ==
    /\ scenarios = <<>>
    /\ steps = <<>>
    /\ defects = <<>>
    /\ proofs = <<>>
    /\ now = 0

\* app.py projects(), POST: one scenario row and its default steps
CreateScenario ==
    /\ op \in {"init", "crud"}
    /\ Len(scenarios) < MaxScenarios
    /\ \E name \in ScenarioNames :
          LET sid == Len(scenarios) + 1
          IN  /\ scenarios' = Append(scenarios,
                     [id |-> sid, name |-> name, created_at |-> now])
              /\ steps' = steps \o
                     [i \in 1..StepsPerScenario |->
                        [scenario_id |-> sid, step_number |-> i,
                         step_name |-> StepName(i), status |-> "Not Started"]]
    /\ op' = "crud"
    /\ UNCHANGED <<defects, proofs, now>>
    /\ UNCHANGED notStoreVars

\* app.py update_step()
UpdateStep ==
    /\ op \in {"init", "crud"}
    /\ \E sid \in ScenarioIdInputs, n \in StepNumberInputs, st \in StepStatuses :
          /\ \E i \in 1..Len(steps) :
                /\ steps[i].scenario_id = sid
                /\ steps[i].step_number = n
                /\ steps[i].status # st
          /\ steps' = [i \in 1..Len(steps) |->
                         IF steps[i].scenario_id = sid /\ steps[i].step_number = n
                         THEN [steps[i] EXCEPT !.status = st]
                         ELSE steps[i]]
    /\ op' = "crud"
    /\ UNCHANGED <<scenarios, defects, proofs, now>>
    /\ UNCHANGED notStoreVars

\* app.py add_defect(): status takes the column default 'Open'
AddDefect ==
    /\ op \in {"init", "crud"}
    /\ Len(defects) < MaxDefects
    /\ \E sid \in ScenarioIdInputs, n \in DefectStepNumbers,
          title \in Titles, who \in Reporters :
          defects' = Append(defects,
              [id |-> Len(defects) + 1, scenario_id |-> sid, step_number |-> n,
               title |-> title, status |-> "Open", reported_by |-> who,
               created_at |-> now])
    /\ op' = "crud"
    /\ UNCHANGED <<scenarios, steps, proofs, now>>
    /\ UNCHANGED notStoreVars

\* app.py update_defect()
UpdateDefect ==
    /\ op \in {"init", "crud"}
    /\ \E id \in 1..Len(defects), st \in DefectStatuses :
          /\ defects[id].status # st
          /\ defects' = [defects EXCEPT ![id].status = st]
    /\ op' = "crud"
    /\ UNCHANGED <<scenarios, steps, proofs, now>>
    /\ UNCHANGED notStoreVars

\* app.py add_proof()
AddProof ==
    /\ op \in {"init", "crud"}
    /\ Len(proofs) < MaxProofs
    /\ \E sid \in ScenarioIdInputs, n \in StepNumberInputs :
          proofs' = Append(proofs,
              [id |-> Len(proofs) + 1, scenario_id |-> sid, step_number |-> n])
    /\ op' = "crud"
    /\ UNCHANGED <<scenarios, steps, defects, now>>
    /\ UNCHANGED notStoreVars

\* a second passes
Tick ==
    /\ op \in {"init", "crud"}
    /\ now < MaxTime
    /\ now' = now + 1
    /\ op' = "crud"
    /\ UNCHANGED <<scenarios, steps, defects, proofs>>
    /\ UNCHANGED notStoreVars

(***************************************************************************)
(* retrieval.py                                                            *)
(***************************************************************************)
\* Python values the handlers return
ListData(rows) == [kind |-> "list", rows |-> rows]

DictData(row) == [kind |-> "dict", rows |-> <<row>>]

NoneData == [kind |-> "none", rows |-> <<>>]

\* bool(data): None and the empty list are false
Truthy(d) == d.kind # "none" /\ d.rows # <<>>

RECURSIVE Flatten(_)
Flatten(ss) == IF ss = <<>> THEN <<>> ELSE Head(ss) \o Flatten(Tail(ss))

\* k1 sorts before k2 (two keys of the same length, compared left to right)
KeyLess(k1, k2) ==
    \E i \in 1..Len(k1) :
        /\ k1[i] < k2[i]
        /\ \A j \in 1..(i - 1) : k1[j] = k2[j]

RECURSIVE InsertByKey(_, _)
InsertByKey(sorted, r) ==
    IF sorted = <<>> THEN <<r>>
    ELSE IF KeyLess(r.key, Head(sorted).key) THEN <<r>> \o sorted
    ELSE <<Head(sorted)>> \o InsertByKey(Tail(sorted), r)

\* ORDER BY: SQLite's sorter keeps rows with equal keys in scan order
RECURSIVE OrderByKey(_)
OrderByKey(rows) ==
    IF rows = <<>> THEN <<>>
    ELSE InsertByKey(OrderByKey(SubSeq(rows, 1, Len(rows) - 1)), rows[Len(rows)])

\* scenarios rows with id = sid (id is the primary key: none or one)
ScenarioRows(sid) == SelectSeq(scenarios, LAMBDA sc : sc.id = sid)

\* SELECT name FROM scenarios ORDER BY created_at DESC
handle_list_scenarios_try(fail) ==
    IF fail # 0 THEN Raised("OperationalError")
    ELSE LET keyed == [i \in 1..Len(scenarios) |->
                         [key |-> <<0 - scenarios[i].created_at>>,
                          name |-> scenarios[i].name]]
             rows == OrderByKey(keyed)
         IN  Returned(ListData([i \in 1..Len(rows) |-> rows[i].name]))

\* a handler whose except clause is missing
handle_list_scenarios_uncaught(fail) == handle_list_scenarios_try(fail)

handle_list_scenarios(fail) ==
    LET r == handle_list_scenarios_try(fail)
    IN  IF r.raised /\ Catches("Exception", r.exc)
        THEN Returned(ListData(<<>>))
        ELSE r

DefectCount(sid) ==
    Cardinality({i \in 1..Len(defects) : defects[i].scenario_id = sid})

\* SELECT scenario_id, COUNT(*) ... GROUP BY scenario_id: one row per
\* scenario_id that occurs, in ascending scenario_id order
DefectGroups ==
    SelectSeq([sid \in ScenarioIdInputs |->
                 [scenario_id |-> sid, defect_count |-> DefectCount(sid)]],
              LAMBDA g : g.defect_count > 0)

\* ... ORDER BY defect_count DESC
DefectGroupsOrdered ==
    OrderByKey([i \in 1..Len(DefectGroups) |->
                  [key |-> <<0 - DefectGroups[i].defect_count>>,
                   scenario_id |-> DefectGroups[i].scenario_id,
                   defect_count |-> DefectGroups[i].defect_count]])

\* a handler that answers without a name when the scenario row is missing
handle_most_defects_scenario_try_nameless(fail) ==
    IF fail = 1 THEN Raised("OperationalError")
    ELSE IF DefectGroupsOrdered = <<>> THEN Returned(NoneData)
    ELSE IF fail = 2 THEN Raised("OperationalError")
    ELSE IF ScenarioRows(Head(DefectGroupsOrdered).scenario_id) = <<>>
         THEN Returned(DictData([name |-> "",
                                 defect_count |-> Head(DefectGroupsOrdered).defect_count]))
    ELSE Returned(DictData(
             [name |-> ScenarioRows(Head(DefectGroupsOrdered).scenario_id)[1].name,
              defect_count |-> Head(DefectGroupsOrdered).defect_count]))

\* fail = 1: the grouped query raises; fail = 2: the name query raises
handle_most_defects_scenario_try(fail) ==
    IF fail = 1 THEN Raised("OperationalError")
    ELSE IF DefectGroupsOrdered = <<>> THEN Returned(NoneData)
    ELSE LET result == Head(DefectGroupsOrdered)
             found == ScenarioRows(result.scenario_id)
         IN  IF fail = 2 THEN Raised("OperationalError")
             ELSE IF found = <<>> THEN Raised("TypeError")
             ELSE Returned(DictData([name |-> found[1].name,
                                     defect_count |-> result.defect_count]))

handle_most_defects_scenario(fail) ==
    LET r == handle_most_defects_scenario_try(fail)
    IN  IF r.raised /\ Catches("Exception", r.exc)
        THEN Returned(NoneData)
        ELSE r

\* defects d JOIN scenarios s ON d.scenario_id = s.id WHERE d.status = 'Open'
\* ORDER BY d.created_at DESC
handle_open_defects_try(fail) ==
    IF fail # 0 THEN Raised("OperationalError")
    ELSE LET open == SelectSeq(defects, LAMBDA d : d.status = "Open")
             joined == Flatten([i \in 1..Len(open) |->
                          LET sc == ScenarioRows(open[i].scenario_id)
                          IN  [j \in 1..Len(sc) |->
                                 [key |-> <<0 - open[i].created_at>>,
                                  title |-> open[i].title,
                                  reported_by |-> open[i].reported_by,
                                  scenario |-> sc[j].name]]])
             rows == OrderByKey(joined)
         IN  Returned(ListData([i \in 1..Len(rows) |->
                 [title |-> rows[i].title,
                  reported_by |-> rows[i].reported_by,
                  scenario |-> rows[i].scenario]]))

handle_open_defects(fail) ==
    LET r == handle_open_defects_try(fail)
    IN  IF r.raised /\ Catches("Exception", r.exc)
        THEN Returned(ListData(<<>>))
        ELSE r

\* a WHERE clause that compares the status without regard to case
handle_failed_steps_try_nocase(fail) ==
    IF fail # 0 THEN Raised("OperationalError")
    ELSE LET failed == SelectSeq(steps, LAMBDA st : st.status \in {"Failed", "failed"})
             joined == Flatten([i \in 1..Len(failed) |->
                          LET sc == ScenarioRows(failed[i].scenario_id)
                          IN  [j \in 1..Len(sc) |->
                                 [key |-> <<NameRank(sc[j].name),
                                            failed[i].step_number>>,
                                  step_name |-> failed[i].step_name,
                                  step_number |-> failed[i].step_number,
                                  scenario |-> sc[j].name]]])
             rows == OrderByKey(joined)
         IN  Returned(ListData([i \in 1..Len(rows) |->
                 [step_name |-> rows[i].step_name,
                  step_number |-> rows[i].step_number,
                  scenario |-> rows[i].scenario]]))

StepRecord(row) ==
    [step_name |-> row.step_name, step_number |-> row.step_number,
     scenario |-> row.scenario]

\* steps st JOIN scenarios sc ON st.scenario_id = sc.id
\* WHERE st.status = 'Failed' ORDER BY sc.name, st.step_number
handle_failed_steps_try(fail) ==
    IF fail # 0 THEN Raised("OperationalError")
    ELSE LET failed == SelectSeq(steps, LAMBDA st : st.status = "Failed")
             joined == Flatten([i \in 1..Len(failed) |->
                          LET sc == ScenarioRows(failed[i].scenario_id)
                          IN  [j \in 1..Len(sc) |->
                                 [key |-> <<NameRank(sc[j].name),
                                            failed[i].step_number>>,
                                  step_name |-> failed[i].step_name,
                                  step_number |-> failed[i].step_number,
                                  scenario |-> sc[j].name]]])
             rows == OrderByKey(joined)
         IN  Returned(ListData([i \in 1..Len(rows) |-> StepRecord(rows[i])]))

\* a handler that appends the rows to a list it never clears
handle_failed_steps_accumulating(fail) ==
    LET r == handle_failed_steps_try(fail)
    IN  IF r.raised THEN Returned(ListData(<<>>))
        ELSE Returned(ListData(data.rows \o r.value.rows))

handle_failed_steps(fail) ==
    LET r == handle_failed_steps_try(fail)
    IN  IF r.raised /\ Catches("Exception", r.exc)
        THEN Returned(ListData(<<>>))
        ELSE r

\* an ON clause that forgets the step number
ProofsOnScenarioOnly(st) ==
    SelectSeq(proofs, LAMBDA p : st.scenario_id = p.scenario_id)

\* the proofs rows the ON clause of the LEFT JOIN pairs with a step
ProofsOn(st) ==
    SelectSeq(proofs, LAMBDA p : /\ st.scenario_id = p.scenario_id
                                 /\ st.step_number = p.step_number)

\* the rows of (step JOIN scenario) LEFT JOIN proofs for one step/scenario
\* pair: one per paired proof, or one with p.id NULL (0) when none pairs
LeftJoinProofs(st, sc) ==
    LET ps == ProofsOn(st)
        base == [key |-> <<NameRank(sc.name), st.step_number>>,
                 step_name |-> st.step_name,
                 step_number |-> st.step_number,
                 scenario |-> sc.name]
    IN  IF ps = <<>>
        THEN <<[base |-> base, p_id |-> 0]>>
        ELSE [k \in 1..Len(ps) |-> [base |-> base, p_id |-> ps[k].id]]

\* steps s JOIN scenarios sc ON s.scenario_id = sc.id LEFT JOIN proofs p ON
\* ... WHERE p.id IS NULL ORDER BY sc.name, s.step_number
handle_no_proof_steps_try(fail) ==
    IF fail # 0 THEN Raised("OperationalError")
    ELSE LET joined == Flatten([i \in 1..Len(steps) |->
                          LET sc == ScenarioRows(steps[i].scenario_id)
                          IN  Flatten([j \in 1..Len(sc) |->
                                         LeftJoinProofs(steps[i], sc[j])])])
             unproved == SelectSeq(joined, LAMBDA r : r.p_id = 0)
             rows == OrderByKey([i \in 1..Len(unproved) |-> unproved[i].base])
         IN  Returned(ListData([i \in 1..Len(rows) |-> StepRecord(rows[i])]))

handle_no_proof_steps(fail) ==
    LET r == handle_no_proof_steps_try(fail)
    IN  IF r.raised /\ Catches("Exception", r.exc)
        THEN Returned(ListData(<<>>))
        ELSE r

(***************************************************************************)
(* Calls of the retrieval handlers.  fail says where cur.execute raises.   *)
(***************************************************************************)
\* a handler is called on the store as the routes left it, or once more
\* right after a call of the same handler
Retrieve(name, r, fail) ==
    /\ op \in {"init", "crud", name}
    /\ data' = r.value
    /\ handler_raised' = r.raised
    /\ db_error' = fail
    /\ repeated' = (op = name)
    /\ op' = name
    /\ UNCHANGED <<storeVars, intentVars, explainVars, askVars>>

ListScenarios ==
    \E fail \in {0, 1} :
        Retrieve("handle_list_scenarios", handle_list_scenarios(fail), fail)

MostDefectsScenario ==
    \E fail \in {0, 1, 2} :
        Retrieve("handle_most_defects_scenario",
                 handle_most_defects_scenario(fail), fail)

OpenDefects ==
    \E fail \in {0, 1} :
        Retrieve("handle_open_defects", handle_open_defects(fail), fail)

FailedSteps ==
    \E fail \in {0, 1} :
        Retrieve("handle_failed_steps", handle_failed_steps(fail), fail)

NoProofSteps ==
    \E fail \in {0, 1} :
        Retrieve("handle_no_proof_steps", handle_no_proof_steps(fail), fail)

(***************************************************************************)
(* explainer.py.  A text is a sequence of pieces (words, numbers as        *)
(* strings, white space), so that str.strip() and the f-strings are        *)
(* computed.                                                               *)
(***************************************************************************)
NoDataMsg == <<"No relevant data found to explain.">>

TimeoutMsg == <<"AI is taking too long to respond. Please try again.">>

ConnectionMsg == <<"Cannot connect to AI service. Make sure Ollama is running.">>

\* f"AI error: HTTP {response.status_code}"
HttpErrorMsg(status) == <<"AI error: HTTP ", status>>

\* f"AI explanation failed: {str(e)}"
GenericMsg(e) == <<"AI explanation failed: ", e>>

NoResponseMsg == <<"AI returned no response.">>

\* str(e) of the exceptions the call can raise besides the two named ones
ExcText(exc) ==
    CASE exc = "JSONDecodeError" -> "Expecting value: line 1 column 1 (char 0)"
      [] exc = "AttributeError" -> "object has no attribute"
      [] OTHER -> exc

\* What the service does with the request of one explanation
\* (kind as for the normalizer; status: the HTTP status; text: "response")
ServiceOk(text) == [kind |-> "ok", status |-> "200", text |-> text]

ServiceFails(kind) == [kind |-> kind, status |-> "200", text |-> <<>>]

ServiceStatus(status) == [kind |-> "http_error", status |-> status, text |-> <<>>]

AnswerOne == <<"There are two scenarios: Alpha and Beta.">>

AnswerTwo == <<" ", "- Alpha", "\n", "- Beta", "\n">>

ExplainOutcomes ==
    {ServiceOk(AnswerOne), ServiceOk(AnswerTwo), ServiceFails("timeout"),
     ServiceFails("connection"), ServiceStatus("500"), ServiceFails("bad_json")}

\* lines 22-34: the body of the try block of _cached_ai_call
ai_call_try(outcome) ==
    CASE outcome.kind = "timeout" -> Raised("Timeout")
      [] outcome.kind = "connection" -> Raised("ConnectionError")
      [] outcome.kind = "http_error" -> Returned(HttpErrorMsg(outcome.status))
      [] outcome.kind = "bad_json" -> Raised("JSONDecodeError")
      [] outcome.kind = "not_object" -> Raised("AttributeError")
      [] outcome.kind = "non_string" -> Raised("AttributeError")
      [] outcome.kind = "no_key" -> Returned(str_strip(NoResponseMsg))
      [] OTHER -> Returned(str_strip(outcome.text))

\* except clauses where the connection failure was pasted from the timeout
ai_call_except_pasted(r) ==
    IF ~r.raised THEN r
    ELSE IF Catches("Timeout", r.exc) THEN Returned(TimeoutMsg)
    ELSE IF Catches("ConnectionError", r.exc) THEN Returned(TimeoutMsg)
    ELSE IF Catches("Exception", r.exc) THEN Returned(GenericMsg(ExcText(r.exc)))
    ELSE r

\* lines 36-44: the except clauses, in order
ai_call_except(r) ==
    IF ~r.raised THEN r
    ELSE IF Catches("Timeout", r.exc) THEN Returned(TimeoutMsg)
    ELSE IF Catches("ConnectionError", r.exc) THEN Returned(ConnectionMsg)
    ELSE IF Catches("Exception", r.exc) THEN Returned(GenericMsg(ExcText(r.exc)))
    ELSE r

\* the function under the decorator
ai_call(outcome) == ai_call_except(ai_call_try(outcome))

\* json.dumps(data, indent=2): the bracket of the value and its items
json_dumps(d) ==
    [bracket |-> CASE d.kind = "dict" -> "{"
                   [] d.kind = "list" -> "["
                   [] OTHER -> "null",
     items |-> d.rows]

\* lines 65-85: the f-string
RenderPrompt(question, intent, d) ==
    [head |-> "You are AskPOTATO, an internal QA assistant.",
     question |-> question,
     intent |-> intent,
     data |-> json_dumps(d)]

Questions == {"list scenarios", "show me all scenarios"}

QuestionCode(q) == IF q = "list scenarios" THEN 0 ELSE 1

\* hash(prompt): 64 bits in CPython, HashMod values here, so that two of the
\* prompts collide
PromptHash(prompt) ==
    (QuestionCode(prompt.question) + Len(prompt.data.items)) % HashMod

\* a cache that looks only at the hash
CacheKeyHashOnly(prompt_hash, prompt) ==
    <<prompt_hash, RenderPrompt("", <<>>, NoneData)>>

\* lru_cache keys a call by all its arguments: (prompt_hash, prompt)
CacheKey(prompt_hash, prompt) == <<prompt_hash, prompt>>

CacheIndex(c, key) == CHOOSE i \in 1..Len(c) : c[i].key = key

\* a lookup that never finds anything
CacheHasNever(c, key) == FALSE

CacheHas(c, key) == \E i \in 1..Len(c) : c[i].key = key

\* a hit that leaves the order alone: first in, first out
CacheTouchNoMove(c, key) == c

\* lru_cache, a hit: the entry becomes the most recently used (the last)
CacheTouch(c, key) ==
    LET i == CacheIndex(c, key)
    IN  SubSeq(c, 1, i - 1) \o SubSeq(c, i + 1, Len(c)) \o <<c[i]>>

\* lru_cache, a miss: the new entry is appended; the least recently used
\* (the first) goes when the cache is full
CacheInsert(c, key, value) ==
    LET entry == [key |-> key, value |-> value]
    IN  IF Len(c) >= CacheMaxSize
        THEN Tail(c) \o <<entry>>
        ELSE Append(c, entry)

\* _cached_ai_call under @lru_cache: nothing is stored when the call raises
cached_ai_call(c, prompt_hash, prompt, outcome) ==
    LET key == CacheKey(prompt_hash, prompt)
    IN  IF CacheHas(c, key)
        THEN [text |-> c[CacheIndex(c, key)].value, raised |-> FALSE, exc |-> "",
              cache |-> CacheTouch(c, key), called |-> FALSE]
        ELSE LET r == ai_call(outcome)
             IN  [text |-> r.value, raised |-> r.raised, exc |-> r.exc,
                  cache |-> IF r.raised THEN c ELSE CacheInsert(c, key, r.value),
                  called |-> TRUE]

\* explain_with_ai without its first two lines
explain_with_ai_no_guard(c, question, intent, d, outcome) ==
    LET prompt == RenderPrompt(question, intent, d)
    IN  cached_ai_call(c, PromptHash(prompt), prompt, outcome)

explain_with_ai(c, question, intent, d, outcome) ==
    IF ~Truthy(d)
    THEN [text |-> NoDataMsg, raised |-> FALSE, exc |-> "", cache |-> c,
          called |-> FALSE]
    ELSE LET prompt == RenderPrompt(question, intent, d)
         IN  cached_ai_call(c, PromptHash(prompt), prompt, outcome)

(***************************************************************************)
(* Calls of explain_with_ai                                                *)
(***************************************************************************)
Request(q, intent, d) == [question |-> q, intent |-> intent, data |-> d]

NoRequest == Request("", <<>>, NoneData)

NamesOne == ListData(<<"Alpha">>)

NamesTwo == ListData(<<"Alpha", "Beta">>)

\* requests with data: pairs that differ in the data only, and pairs whose
\* prompts have the same hash
DataRequests ==
    {Request("list scenarios", LIST_SCENARIOS, NamesOne),
     Request("list scenarios", LIST_SCENARIOS, NamesTwo),
     Request("show me all scenarios", LIST_SCENARIOS, NamesOne),
     Request("show me all scenarios", LIST_SCENARIOS, NamesTwo)}

\* requests with empty or absent data, for every intent
NoDataRequests ==
    {Request("list scenarios", i, d) : i \in INTENTS, d \in {ListData(<<>>), NoneData}}

\* the request threads of the server
Threads == {1, 2}

IdleThread == [pc |-> "idle", req |-> NoRequest, text |-> <<>>, called |-> FALSE]

ExplainInit ==
    /\ cache = <<>>
    /\ service_calls = 0
    /\ explained = <<>>
    /\ explain_raised = FALSE
    /\ explain_req = NoRequest
    /\ explain_called = FALSE
    /\ explain_outcome = "none"
    /\ answers = {}
    /\ nodata_msgs = {}
    /\ uses = <<>>
    /\ threads = [t \in Threads |-> IdleThread]
    /\ lock = 0
    /\ produced = {}

\* the prompts in order of their latest use, after a lookup of prompt
Used(us, prompt) == SelectSeq(us, LAMBDA p : p # prompt) \o <<prompt>>

\* one call explain_with_ai(req) during which the service would do outcome
Explain(req, outcome) ==
    LET r == explain_with_ai(cache, req.question, req.intent, req.data, outcome)
    IN  /\ r.called => service_calls < MaxServiceCalls
        /\ cache' = r.cache
        /\ service_calls' = IF r.called THEN service_calls + 1 ELSE service_calls
        /\ explained' = r.text
        /\ explain_raised' = r.raised
        /\ explain_req' = req
        /\ explain_called' = r.called
        /\ explain_outcome' = IF r.called THEN outcome.kind ELSE "none"
        /\ answers' = IF Truthy(req.data)
                      THEN {a \in answers : a.req # req}
                              \cup {[req |-> req, text |-> r.text]}
                      ELSE answers
        /\ nodata_msgs' = IF Truthy(req.data) THEN nodata_msgs
                          ELSE nodata_msgs \cup
                                 {[intent |-> req.intent, text |-> r.text]}
        /\ uses' = IF Truthy(req.data)
                   THEN Used(uses, RenderPrompt(req.question, req.intent, req.data))
                   ELSE uses
        /\ op' = "explain"
        /\ UNCHANGED <<threads, lock, produced>>

\* the service is asked only when the call sends a request: the outcomes
\* to try for a call that sends none are one
OutcomesFor(req) ==
    IF explain_with_ai(cache, req.question, req.intent, req.data,
                       ServiceFails("timeout")).called
    THEN ExplainOutcomes
    ELSE {ServiceFails("timeout")}

ExplainData ==
    /\ \E req \in DataRequests :
          \E outcome \in OutcomesFor(req) : Explain(req, outcome)
    /\ UNCHANGED notExplainVars

ExplainNoData ==
    /\ \E req \in NoDataRequests :
          \E outcome \in OutcomesFor(req) : Explain(req, outcome)
    /\ UNCHANGED notExplainVars

(***************************************************************************)
(* Concurrent calls of _cached_ai_call: the lru_cache wrapper looks the    *)
(* key up inside its critical section, calls the function outside it, and  *)
(* enters the critical section again to store the result                   *)
(***************************************************************************)
\* a wrapper that stores its result whatever the cache holds by then
CacheStoreAlways(c, key, value) == CacheInsert(c, key, value)

\* the wrapper after the call: a key that another call stored meanwhile
\* is left alone
CacheStore(c, key, value) ==
    IF CacheHas(c, key) THEN c ELSE CacheInsert(c, key, value)

\* a wrapper that keeps the critical section during the call
LockAfterMissHeld(t) == t

\* the critical section ends before the function is called
LockAfterMiss(t) == 0

ThreadKey(req) ==
    CacheKey(PromptHash(RenderPrompt(req.question, req.intent, req.data)),
             RenderPrompt(req.question, req.intent, req.data))

\* thread t calls explain_with_ai(req) with data: the lookup of the wrapper
Lookup(t, req) ==
    /\ threads[t].pc = "idle"
    /\ lock = 0
    /\ IF CacheHas(cache, ThreadKey(req))
       THEN /\ threads' = [threads EXCEPT ![t] =
                             [pc |-> "done", req |-> req,
                              text |-> cache[CacheIndex(cache, ThreadKey(req))].value,
                              called |-> FALSE]]
            /\ cache' = CacheTouch(cache, ThreadKey(req))
            /\ lock' = 0
            /\ UNCHANGED service_calls
       ELSE /\ service_calls < MaxServiceCalls
            /\ threads' = [threads EXCEPT ![t] =
                             [pc |-> "calling", req |-> req, text |-> <<>>,
                              called |-> TRUE]]
            /\ service_calls' = service_calls + 1
            /\ lock' = LockAfterMiss(t)
            /\ UNCHANGED cache
    /\ op' = "lookup"
    /\ UNCHANGED <<explained, explain_raised, explain_req, explain_called,
                   explain_outcome, answers, nodata_msgs, uses, produced>>
    /\ UNCHANGED notExplainVars

\* the call of thread t ends with outcome: the wrapper stores and returns
Return(t, outcome) ==
    /\ threads[t].pc = "calling"
    /\ lock \in {0, t}
    /\ \E r \in {ai_call(outcome)} :
          /\ threads' = [threads EXCEPT ![t].pc = "done", ![t].text = r.value]
          /\ cache' = IF r.raised THEN cache
                      ELSE CacheStore(cache, ThreadKey(threads[t].req), r.value)
          /\ produced' = produced \cup {<<ThreadKey(threads[t].req)[2], r.value>>}
    /\ lock' = 0
    /\ op' = "return"
    /\ UNCHANGED <<service_calls, explained, explain_raised, explain_req,
                   explain_called, explain_outcome, answers, nodata_msgs, uses>>
    /\ UNCHANGED notExplainVars

\* the request of thread t is answered; the thread takes the next request
Finish(t) ==
    /\ threads[t].pc = "done"
    /\ threads' = [threads EXCEPT ![t] = IdleThread]
    /\ op' = "finish"
    /\ UNCHANGED <<cache, service_calls, explained, explain_raised, explain_req,
                   explain_called, explain_outcome, answers, nodata_msgs, uses,
                   lock, produced>>
    /\ UNCHANGED notExplainVars

ThreadLookup == \E t \in Threads, req \in DataRequests : Lookup(t, req)

\* what the service does with the request of a concurrent call
ThreadOutcomes ==
    {ServiceOk(AnswerOne), ServiceOk(AnswerTwo), ServiceFails("timeout")}

ThreadReturn == \E t \in Threads, outcome \in ThreadOutcomes : Return(t, outcome)

ThreadFinish == \E t \in Threads : Finish(t)

(***************************************************************************)
(* app.py ask(): the question endpoint                                     *)
(***************************************************************************)
\* an else branch that answers with the apology of the except clause
DidntUnderstandMsg_apology ==
    <<"Sorry, something went wrong processing your question. Please try again.">>

DidntUnderstandMsg ==
    <<"I didn't quite understand that. Try asking about scenarios, defects, failed steps, or missing proofs.">>

SorryMsg ==
    <<"Sorry, something went wrong processing your question. Please try again.">>

\* an if/elif chain whose branches all call the first handler
Dispatch_first(intent, fail) == handle_list_scenarios(fail)

\* lines 425-443: the handler each branch of the if/elif chain calls
Dispatch(intent, fail) ==
    CASE intent = LIST_SCENARIOS -> handle_list_scenarios(fail)
      [] intent = MOST_DEFECTS_SCENARIO -> handle_most_defects_scenario(fail)
      [] intent = OPEN_DEFECTS -> handle_open_defects(fail)
      [] intent = FAILED_STEPS -> handle_failed_steps(fail)
      [] intent = NO_PROOF_STEPS -> handle_no_proof_steps(fail)

\* the try blocks of the same handlers: what happened before any except
DispatchTry(intent, fail) ==
    CASE intent = LIST_SCENARIOS -> handle_list_scenarios_try(fail)
      [] intent = MOST_DEFECTS_SCENARIO -> handle_most_defects_scenario_try(fail)
      [] intent = OPEN_DEFECTS -> handle_open_defects_try(fail)
      [] intent = FAILED_STEPS -> handle_failed_steps_try(fail)
      [] intent = NO_PROOF_STEPS -> handle_no_proof_steps_try(fail)

\* the query fail names ran and raised
StorageRaised(intent, fail) ==
    fail # 0 /\ DispatchTry(intent, fail) = Raised("OperationalError")

\* lines 427-443: the answer of each branch when the data is empty
NothingFoundMsg(intent) ==
    CASE intent = LIST_SCENARIOS -> <<"No scenarios found.">>
      [] intent = MOST_DEFECTS_SCENARIO -> <<"No defects found.">>
      [] intent = OPEN_DEFECTS -> <<"No open defects.">>
      [] intent = FAILED_STEPS -> <<"No failed steps.">>
      [] intent = NO_PROOF_STEPS -> <<"All steps have proof uploaded.">>

HasBranch(intent) ==
    intent \in {LIST_SCENARIOS, MOST_DEFECTS_SCENARIO, OPEN_DEFECTS,
                FAILED_STEPS, NO_PROOF_STEPS}

NoExplain(c) ==
    [text |-> <<>>, raised |-> FALSE, exc |-> "", cache |-> c, called |-> FALSE]

\* ask(), lines 415-453, stage by stage.  Each stage computes one value from
\* those before it and hands all of them on:
\*   n          what normalize_question did (line 416)
\*   intent     detect_intent(normalized) (line 419)
\*   branch     the if/elif chain is reached and has a branch for the intent
\*   h          what the handler of that branch did
\*   render     explain_with_ai is called: the data is not empty
\*   e          what explain_with_ai did
\* lines 448-453: the except clause turns every exception of the try block
\* into the apology; without an exception the response is that of the branch
ask_respond(n, intent, connect_fails, branch, storage_raised, h, render, e) ==
    LET exc == IF n.raised THEN n.exc
               ELSE IF connect_fails THEN "OperationalError"
               ELSE IF h.raised THEN h.exc
               ELSE IF e.raised THEN e.exc
               ELSE ""
    IN  [n |-> n,
         intent |-> IF n.raised THEN <<>> ELSE intent,
         connected |-> ~n.raised /\ ~connect_fails,
         retrieved |-> branch,
         storage_raised |-> storage_raised,
         h |-> h,
         rendered |-> render,
         e |-> e,
         raised |-> exc # "" /\ ~Catches("Exception", exc),
         response |-> IF exc # "" THEN SorryMsg
                      ELSE IF ~HasBranch(intent) THEN DidntUnderstandMsg
                      ELSE IF render THEN e.text
                      ELSE NothingFoundMsg(intent)]

\* lines 427-443: explain_with_ai(raw_question, intent, data) if data
ask_render(c, question, n, intent, connect_fails, branch, storage_raised, h, render, outcome) ==
    ask_respond(n, intent, connect_fails, branch, storage_raised, h, render,
                IF render
                THEN explain_with_ai(c, question, intent, h.value, outcome)
                ELSE NoExplain(c))

ask_retrieved(c, question, n, intent, connect_fails, branch, storage_raised, h, outcome) ==
    ask_render(c, question, n, intent, connect_fails, branch, storage_raised, h,
               branch /\ ~h.raised /\ Truthy(h.value), outcome)

\* lines 425-443: data = handle_...(cur)
ask_retrieve(c, question, n, intent, connect_fails, branch, fail, outcome) ==
    ask_retrieved(c, question, n, intent, connect_fails, branch,
                  branch /\ StorageRaised(intent, fail),
                  IF branch THEN Dispatch(intent, fail) ELSE Returned(NoneData),
                  outcome)

\* lines 421-425: get_db_connection(), then the if/elif chain
ask_connect(c, question, n, intent, connect_fails, fail, outcome) ==
    ask_retrieve(c, question, n, intent, connect_fails,
                 ~n.raised /\ ~connect_fails /\ HasBranch(intent),
                 fail, outcome)

\* line 419: intent = detect_intent(normalized)
ask_detect(c, question, n, connect_fails, fail, outcome) ==
    ask_connect(c, question, n, detect_intent(n.value), connect_fails, fail,
                outcome)

\* line 416: normalized = normalize_question(raw_question)
ask_post(c, question, kind, text, connect_fails, fail, outcome) ==
    ask_detect(c, question, normalize_question(kind, text), connect_fails, fail,
               outcome)

\* what the normalizer's request gets back in a question: a label, a label
\* with noise, words, or a failure
AskAnswers == INTENTS \cup {UNKNOWN, Ex_Punct, Ex_Words}

AskQuestions == {"which scenario is worst"}

\* a "response" of white space only
BlankAnswer == <<" ", "\n">>

\* what the service can do with the renderer's request of a question
AskOutcomes == ExplainOutcomes \cup {ServiceOk(BlankAnswer)}

AskInit ==
    /\ response = <<>>
    /\ ask_raised = FALSE
    /\ ask_question = ""
    /\ stages = <<>>

\* one POST of a non-empty question
AskWith(question, kind, text, connect_fails, fail, outcome) ==
    \E a \in {ask_post(cache, question, kind, text, connect_fails, fail, outcome)} :
        /\ a.e.called => service_calls < MaxServiceCalls
        /\ raw' = text
        /\ normalized' = a.n.value
        /\ norm_raised' = a.n.raised
        /\ norm_outcome' = kind
        /\ detected' = a.intent
        /\ detect_arg' = a.n.value
        /\ data' = a.h.value
        /\ handler_raised' = a.h.raised
        /\ db_error' = IF a.storage_raised THEN fail ELSE 0
        /\ repeated' = FALSE
        /\ cache' = a.e.cache
        /\ service_calls' = IF a.e.called THEN service_calls + 1 ELSE service_calls
        /\ explained' = a.e.text
        /\ explain_raised' = a.e.raised
        /\ explain_req' = IF a.rendered
                          THEN Request(question, a.intent, a.h.value)
                          ELSE NoRequest
        /\ explain_called' = a.e.called
        /\ explain_outcome' = IF a.e.called THEN outcome.kind ELSE "none"
        /\ response' = a.response
        /\ ask_raised' = a.raised
        /\ ask_question' = question
        /\ stages' = <<a.connected, a.retrieved, a.rendered>>
        /\ op' = "ask"
        /\ uses' = IF a.rendered
                   THEN Used(uses, RenderPrompt(question, a.intent, a.h.value))
                   ELSE uses
        /\ UNCHANGED <<edits, answers, nodata_msgs, storeVars, threads, lock, produced>>

\* one POST of a non-empty question; whatever the service and the storage
\* layer do while it is processed
Ask ==
    /\ op = "init"
    /\ \E question \in AskQuestions, kind \in {"ok"} \cup FailureKinds,
          text \in AskAnswers, connect_fails \in BOOLEAN,
          fail \in {0, 1, 2}, outcome \in AskOutcomes :
          AskWith(question, kind, text, connect_fails, fail, outcome)

\* lines 409-411: a question that is empty after strip() is not processed
AskEmpty ==
    /\ op = "init"
    /\ response' = <<>>
    /\ ask_raised' = FALSE
    /\ ask_question' = ""
    /\ stages' = <<FALSE, FALSE, FALSE>>
    /\ op' = "ask_empty"
    /\ UNCHANGED <<intentVars, storeVars, retrievalVars, explainVars>>

(***************************************************************************)
(* Databases a question can meet                                           *)
(***************************************************************************)
\* init_db.py init_database(): the tables, empty
EmptyStore ==
    [scenarios |-> <<>>, steps |-> <<>>, defects |-> <<>>, proofs |-> <<>>]

\* init_db.py insert_sample_data(): scenarios with their steps, the first two
\* steps passed, and one defect on step 1 of each scenario
SampleNames == <<"Alpha", "Beta">>

SampleStore ==
    [scenarios |-> [s \in 1..Len(SampleNames) |->
                      [id |-> s, name |-> SampleNames[s], created_at |-> 0]],
     steps |-> Flatten([s \in 1..Len(SampleNames) |->
                  [i \in 1..StepsPerScenario |->
                     [scenario_id |-> s, step_number |-> i,
                      step_name |-> StepName(i),
                      status |-> IF i > 2 THEN "Not Started" ELSE "Passed"]]]),
     defects |-> [s \in 1..Len(SampleNames) |->
                    [id |-> s, scenario_id |-> s, step_number |-> 1,
                     title |-> "Crash on save", status |-> "Open",
                     reported_by |-> "ann", created_at |-> 0]],
     proofs |-> <<>>]

\* the sample data after some work through the routes: a step failed, a
\* defect was closed, proofs were uploaded (one for a step number no step
\* has), and two defects were filed under a scenario id no scenario has
WorkedStore ==
    [scenarios |-> SampleStore.scenarios,
     steps |-> [i \in 1..Len(SampleStore.steps) |->
                  IF i = 2 THEN [SampleStore.steps[i] EXCEPT !.status = "Failed"]
                  ELSE SampleStore.steps[i]],
     defects |-> [SampleStore.defects EXCEPT ![1].status = "Closed"] \o
                 [k \in 1..2 |->
                    [id |-> Len(SampleNames) + k,
                     scenario_id |-> Len(SampleNames) + 1, step_number |-> 1,
                     title |-> "Crash on save", status |-> "Open",
                     reported_by |-> "ann", created_at |-> 1]],
     proofs |-> <<[id |-> 1, scenario_id |-> 1, step_number |-> 1],
                  [id |-> 2, scenario_id |-> 1,
                   step_number |-> StepsPerScenario + 1]>>]

\* every step of the sample data has a proof
ProvedStore ==
    [scenarios |-> SampleStore.scenarios,
     steps |-> SampleStore.steps,
     defects |-> <<>>,
     proofs |-> [i \in 1..Len(SampleStore.steps) |->
                   [id |-> i, scenario_id |-> SampleStore.steps[i].scenario_id,
                    step_number |-> SampleStore.steps[i].step_number]]]

Stores == {EmptyStore, SampleStore, WorkedStore, ProvedStore}

(***************************************************************************)
(* Specifications                                                          *)
(***************************************************************************)
RetrievalInit ==
    /\ data = NoneData
    /\ handler_raised = FALSE
    /\ db_error = 0
    /\ repeated = FALSE

\* texts: the validator and the normalizer on edited texts
InitIntent ==
    /\ op = "init"
    /\ IntentInit
    /\ StoreInit
    /\ RetrievalInit
    /\ ExplainInit
    /\ AskInit

IntentNext ==
    \/ EditInsert
    \/ EditDelete
    \/ EditLower
    \/ NormalizeOk
    \/ NormalizeFailure
    \/ DetectRaw
    \/ DetectNormalized

SpecIntent == InitIntent /\ [][IntentNext]_vars

\* the freshly initialised database, no text
Init ==
    /\ op = "init"
    /\ raw = <<>>
    /\ edits = 0
    /\ normalized = <<>>
    /\ norm_raised = FALSE
    /\ norm_outcome = "none"
    /\ detected = <<>>
    /\ detect_arg = <<>>
    /\ StoreInit
    /\ RetrievalInit
    /\ ExplainInit
    /\ AskInit

\* scenarios, their steps and proofs; the NO_PROOF_STEPS handler
ProofsNext ==
    \/ CreateScenario
    \/ AddProof
    \/ NoProofSteps

SpecProofs == Init /\ [][ProofsNext]_vars

\* scenarios and defects; the MOST_DEFECTS_SCENARIO handler
DefectsNext ==
    \/ CreateScenario
    \/ AddDefect
    \/ UpdateDefect
    \/ MostDefectsScenario

SpecDefects == Init /\ [][DefectsNext]_vars

\* defects posted with any scenario id, and the question about them; the
\* query counts the defects of every status
OrphansNext ==
    \/ CreateScenario
    \/ AddDefect
    \/ MostDefectsScenario

SpecOrphans == Init /\ [][OrphansNext]_vars

\* explain_with_ai on requests with data: the cache and the service
CacheNext ==
    \/ ExplainData

SpecCache == Init /\ [][CacheNext]_vars

\* request threads that call _cached_ai_call concurrently
ThreadsNext ==
    \/ ThreadLookup
    \/ ThreadReturn
    \/ ThreadFinish

SpecThreads == Init /\ [][ThreadsNext]_vars

\* explain_with_ai on requests without data
NoDataNext ==
    \/ ExplainNoData

SpecNoData == Init /\ [][NoDataNext]_vars

\* one question put to each of the databases
InitAsk ==
    /\ op = "init"
    /\ raw = <<>>
    /\ edits = 0
    /\ normalized = <<>>
    /\ norm_raised = FALSE
    /\ norm_outcome = "none"
    /\ detected = <<>>
    /\ detect_arg = <<>>
    /\ \E st \in Stores :
          /\ scenarios = st.scenarios
          /\ steps = st.steps
          /\ defects = st.defects
          /\ proofs = st.proofs
    /\ now = 0
    /\ RetrievalInit
    /\ ExplainInit
    /\ AskInit

AskNext ==
    \/ Ask
    \/ AskEmpty

SpecAsk == InitAsk /\ [][AskNext]_vars

\* scenarios and defects filed, closed and reopened over time; the
\* OPEN_DEFECTS handler
OpenNext ==
    \/ CreateScenario
    \/ AddDefect
    \/ UpdateDefect
    \/ Tick
    \/ OpenDefects

SpecOpen == Init /\ [][OpenNext]_vars

\* scenarios whose steps are marked through update_step; the FAILED_STEPS
\* handler
FailedNext ==
    \/ CreateScenario
    \/ UpdateStep
    \/ FailedSteps

SpecFailed == Init /\ [][FailedNext]_vars

\* the five handlers, each called and called again, on the databases above
\* and on those update_step and update_defect make of them
RetrievalNext ==
    \/ UpdateDefect
    \/ ListScenarios
    \/ MostDefectsScenario
    \/ OpenDefects
    \/ FailedSteps
    \/ NoProofSteps

SpecRetrieval == InitAsk /\ [][RetrievalNext]_vars

(***************************************************************************)
(* Claims about the validator and the normalizer (under SpecIntent)        *)
(***************************************************************************)
\* the five supported labels, as the specification lists them
SupportedLabels ==
    {LIST_SCENARIOS, MOST_DEFECTS_SCENARIO, OPEN_DEFECTS, FAILED_STEPS,
     NO_PROOF_STEPS}

\* upper-case the text, then keep only the letters A-Z and the underscore
SanitizedLabel(s) == SelectSeq(str_upper(s), InClass_AZ_)

\* C1 as stated: detect_intent(s) = s if and only if s is one of the five
\* supported labels, and every other string gives UNKNOWN.
C1_Original ==
    op = "detect" =>
        /\ (detected = detect_arg) <=> (detect_arg \in SupportedLabels)
        /\ detect_arg \notin SupportedLabels => detected = UNKNOWN

\* C1 amended: detect_intent returns a supported label unchanged and UNKNOWN
\* for every other string; so detect_intent(s) = s exactly when s is one of
\* the five labels or s is the string UNKNOWN itself.
C1_DetectIntent ==
    op = "detect" =>
        /\ detect_arg \in SupportedLabels => detected = detect_arg
        /\ detect_arg \notin SupportedLabels => detected = UNKNOWN
        /\ (detected = detect_arg)
              <=> (detect_arg \in SupportedLabels \cup {UNKNOWN})

\* a label with one stray or lower-cased character was refused
C1_Witness ==
    /\ op = "detect"
    /\ edits = 1
    /\ detect_arg = raw
    /\ detect_arg \notin SupportedLabels
    /\ SanitizedLabel(detect_arg) \in SupportedLabels
    /\ detected = UNKNOWN

\* C2: on a successful response with text raw, normalize_question returns
\* the sanitized text when it is in the vocabulary and UNKNOWN otherwise; the
\* result is always a vocabulary member or UNKNOWN.
C2_Sanitization ==
    (op = "normalize" /\ norm_outcome = "ok") =>
        /\ ~norm_raised
        /\ normalized = IF SanitizedLabel(raw) \in SupportedLabels
                        THEN SanitizedLabel(raw)
                        ELSE UNKNOWN
        /\ normalized \in SupportedLabels \cup {UNKNOWN}
        /\ raw = Ex_Punct => normalized = OPEN_DEFECTS
        /\ raw = Ex_Padded => normalized = OPEN_DEFECTS
        /\ raw = Ex_Words => normalized = UNKNOWN

\* a response that is not a label itself was sanitized into one
C2_Witness ==
    /\ op = "normalize"
    /\ norm_outcome = "ok"
    /\ raw \notin SupportedLabels
    /\ str_strip(raw) \notin SupportedLabels
    /\ normalized \in SupportedLabels

\* C3: no exception leaves normalize_question; a timeout, a connection
\* failure, a non-success status, a malformed body and an out-of-vocabulary
\* result all give UNKNOWN.
C3_NormalizeNeverRaises ==
    op = "normalize" =>
        /\ ~norm_raised
        /\ norm_outcome \in FailureKinds => normalized = UNKNOWN
        /\ (norm_outcome = "ok" /\ SanitizedLabel(raw) \notin SupportedLabels)
              => normalized = UNKNOWN

\* the service answered with an error status and the caller got UNKNOWN
C3_Witness ==
    /\ op = "normalize"
    /\ norm_outcome = "http_error"
    /\ ~norm_raised
    /\ normalized = UNKNOWN

\* the call at hand had empty or absent data
NoDataCall == op = "explain" /\ ~Truthy(explain_req.data)

\* C4 as stated: with empty or absent data explain_with_ai calls no service
\* and returns a message specific to the intent, one per supported intent.
C4_Original ==
    /\ NoDataCall => ~explain_called /\ service_calls = 0
    /\ \A a, b \in nodata_msgs : a.intent # b.intent => a.text # b.text

\* C4 amended: with empty or absent data explain_with_ai calls no service,
\* raises nothing and returns the one fixed message "No relevant data found
\* to explain.", the same for every intent.
C4_ExplainNoData ==
    /\ NoDataCall =>
          /\ ~explain_called
          /\ service_calls = 0
          /\ ~explain_raised
          /\ explained = <<"No relevant data found to explain.">>
    /\ \A m \in nodata_msgs : m.text = <<"No relevant data found to explain.">>

\* every supported intent was explained without data, the last with None
C4_Witness ==
    /\ NoDataCall
    /\ explain_req.data.kind = "none"
    /\ {m.intent : m \in nodata_msgs} = SupportedLabels

\* the prompt the call explain_with_ai(req) renders
PromptOf(req) ==
    [head |-> "You are AskPOTATO, an internal QA assistant.",
     question |-> req.question,
     intent |-> req.intent,
     data |-> [bracket |-> IF req.data.kind = "dict" THEN "{"
                           ELSE IF req.data.kind = "list" THEN "[" ELSE "null",
               items |-> req.data.rows]]

\* the prompts that have an entry in cache c
CachedPrompts(c) == {c[i].key[2] : i \in 1..Len(c)}

\* C5: a call with a (question, intent, data) triple whose entry is still in
\* the cache sends no request to the service and returns the text the
\* previous call with that triple returned.
C5_CacheHit ==
    [][(/\ op' = "explain"
        /\ Truthy(explain_req'.data)
        /\ PromptOf(explain_req') \in CachedPrompts(cache))
       => (/\ ~explain_called'
           /\ service_calls' = service_calls
           /\ \E a \in answers : a.req = explain_req' /\ a.text = explained')]_vars

\* a call was answered from a full cache after several requests were sent
C5_Witness ==
    /\ op = "explain"
    /\ Truthy(explain_req.data)
    /\ ~explain_called
    /\ service_calls >= 2
    /\ Len(cache) >= 2
    /\ \E a \in answers : a.req = explain_req /\ a.text = explained

C7_FailureMessages ==
    (op = "explain" /\ explain_called) =>
        /\ ~explain_raised
        /\ explain_outcome # "ok" => explained # <<>>
        /\ (explain_outcome = "timeout") <=>
              (explained = <<"AI is taking too long to respond. Please try again.">>)
        /\ (explain_outcome = "connection") <=>
              (explained = <<"Cannot connect to AI service. Make sure Ollama is running.">>)
        /\ (explain_outcome = "http_error") <=>
              (Head(explained) = "AI error: HTTP ")
        /\ (explain_outcome = "bad_json") <=>
              (Head(explained) = "AI explanation failed: ")

\* the service could not be reached and the caller got the text for that
C7_Witness ==
    /\ op = "explain"
    /\ explain_called
    /\ explain_outcome = "connection"
    /\ ~explain_raised
    /\ Head(explained) = "Cannot connect to AI service. Make sure Ollama is running."

\* the record handle_no_proof_steps gives for step i
RecordOfStep(i) ==
    [step_name |-> steps[i].step_name,
     step_number |-> steps[i].step_number,
     scenario |-> scenarios[steps[i].scenario_id].name]

\* some proof has the scenario id and the step number of step i
HasProof(i) ==
    \E k \in 1..Len(proofs) :
        /\ proofs[k].scenario_id = steps[i].scenario_id
        /\ proofs[k].step_number = steps[i].step_number

\* proof k has the scenario id and step number of no step
OrphanProof(k) ==
    \A i \in 1..Len(steps) :
        \/ proofs[k].scenario_id # steps[i].scenario_id
        \/ proofs[k].step_number # steps[i].step_number

Occurrences(rows, r) == Cardinality({k \in 1..Len(rows) : rows[k] = r})

\* C8: the result of handle_no_proof_steps holds a step exactly once when no
\* proof has both its scenario id and its step number, and not at all when
\* one or more proofs have; a proof that matches no step changes nothing.
\* (Steps of two scenarios with one name give equal records, so the records
\* are counted.)
C8_NoProofSteps ==
    (op = "handle_no_proof_steps" /\ db_error = 0) =>
        /\ ~handler_raised
        /\ data.kind = "list"
        /\ \A k \in 1..Len(data.rows) :
              \E i \in 1..Len(steps) : data.rows[k] = RecordOfStep(i)
        /\ \A i \in 1..Len(steps) :
              Occurrences(data.rows, RecordOfStep(i)) =
                 Cardinality({j \in 1..Len(steps) :
                                 RecordOfStep(j) = RecordOfStep(i) /\ ~HasProof(j)})

\* one step has two proofs, a proof matches no step, and the other steps
\* are the result
C8_Witness ==
    /\ op = "handle_no_proof_steps"
    /\ db_error = 0
    /\ \E k \in 1..Len(proofs) : OrphanProof(k)
    /\ \E i \in 1..Len(steps) : HasProof(i)
    /\ \E i, j \in 1..Len(steps) :
          /\ steps[i].scenario_id = steps[j].scenario_id
          /\ HasProof(i)
          /\ ~HasProof(j)
          /\ Occurrences(data.rows, RecordOfStep(j)) = 1
          /\ Occurrences(data.rows, RecordOfStep(i)) = 0

\* the scenario ids the defects carry
DefectScenarioIds == {defects[i].scenario_id : i \in 1..Len(defects)}

DefectsOf(sid) == Cardinality({i \in 1..Len(defects) : defects[i].scenario_id = sid})

\* the id with the most defect rows, the smallest such id on a tie (GROUP BY
\* yields the groups in ascending scenario id order)
TopScenarioId ==
    CHOOSE sid \in DefectScenarioIds :
        \A other \in DefectScenarioIds :
            \/ DefectsOf(other) < DefectsOf(sid)
            \/ DefectsOf(other) = DefectsOf(sid) /\ sid <= other

\* C9: handle_most_defects_scenario returns the name and the defect count of
\* the scenario with the most defect rows (all statuses, grouped by scenario
\* id, the first in grouping order on a tie), and empty when there are no
\* defects.
C9_MostDefects ==
    (op = "handle_most_defects_scenario" /\ db_error = 0) =>
        IF defects = <<>>
        THEN data.kind = "none"
        ELSE /\ data.kind = "dict"
             /\ data.rows[1].defect_count = DefectsOf(TopScenarioId)
             /\ \E i \in 1..Len(scenarios) :
                   /\ scenarios[i].id = TopScenarioId
                   /\ data.rows[1].name = scenarios[i].name

\* the empty result a handler gives for an intent
EmptyResult(intent) ==
    IF intent = MOST_DEFECTS_SCENARIO
    THEN [kind |-> "none", rows |-> <<>>]
    ELSE [kind |-> "list", rows |-> <<>>]

\* C10: when the storage layer raises during the query of a handler, the
\* handler raises nothing and returns an empty result (None for
\* MOST_DEFECTS_SCENARIO, the empty list for the others), and ask answers
\* with the intent's "nothing found" text, not with the error text.
C10_HandlersTotal ==
    (op = "ask" /\ db_error # 0) =>
        /\ detected \in SupportedLabels
        /\ ~handler_raised
        /\ data = EmptyResult(detected)
        /\ ~explain_called
        /\ ~ask_raised
        /\ response # <<"Sorry, something went wrong processing your question. Please try again.">>
        /\ detected = LIST_SCENARIOS => response = <<"No scenarios found.">>
        /\ detected = MOST_DEFECTS_SCENARIO => response = <<"No defects found.">>
        /\ detected = OPEN_DEFECTS => response = <<"No open defects.">>
        /\ detected = FAILED_STEPS => response = <<"No failed steps.">>
        /\ detected = NO_PROOF_STEPS => response = <<"All steps have proof uploaded.">>

\* the query of handle_list_scenarios raised on a database that has
\* scenarios, and the user was told that there are none
C10_Witness ==
    /\ op = "ask"
    /\ db_error # 0
    /\ detected = LIST_SCENARIOS
    /\ scenarios # <<>>
    /\ data = [kind |-> "list", rows |-> <<>>]
    /\ response = <<"No scenarios found.">>

(***************************************************************************)
(* Claims about repeated calls and the other handlers                      *)
(***************************************************************************)
HandlerOps ==
    {"handle_list_scenarios", "handle_most_defects_scenario",
     "handle_open_defects", "handle_failed_steps", "handle_no_proof_steps"}

\* this step is a call of the handler that was called last; no route ran in
\* between, so the store is the same for both calls
CalledAgain == op \in HandlerOps /\ op' = op

OpenDefectIds == {i \in 1..Len(defects) : defects[i].status = "Open"}

\* the record the claim describes for defect i: its title and reporter and
\* the name of the scenario that owns it
OpenDefectRecords(i) ==
    {[title |-> defects[i].title,
      reported_by |-> defects[i].reported_by,
      scenario |-> scenarios[k].name] :
        k \in {k \in 1..Len(scenarios) : scenarios[k].id = defects[i].scenario_id}}

\* C12: handle_open_defects returns one {title, reported_by, scenario}
\* record for each defect whose status is exactly "Open" and for no other
\* defect, with the name of the defect's scenario, newest first: the rows are
\* the records of the open defects in some order in which the creation
\* times do not increase.
C12_OpenDefects ==
    (op = "handle_open_defects" /\ db_error = 0) =>
        /\ data.kind = "list"
        /\ \E pi \in [1..Len(data.rows) -> OpenDefectIds] :
              /\ \A k, l \in 1..Len(data.rows) : k # l => pi[k] # pi[l]
              /\ \A i \in OpenDefectIds : \E k \in 1..Len(data.rows) : pi[k] = i
              /\ \A k \in 1..Len(data.rows) : data.rows[k] \in OpenDefectRecords(pi[k])
              /\ \A k, l \in 1..Len(data.rows) :
                    k < l => defects[pi[k]].created_at >= defects[pi[l]].created_at

\* scenario name a sorts before scenario name b
NameBefore(a, b) == a = "Alpha" /\ b = "Beta"

FailedStepIds == {i \in 1..Len(steps) : steps[i].status = "Failed"}

\* C13: handle_failed_steps returns one {step_name, step_number, scenario}
\* record for each step whose status is exactly "Failed" and for no other
\* step, ordered by scenario name and then by step number.  (Steps of two
\* scenarios with one name give equal records, so the records are counted.)
C13_FailedSteps ==
    (op = "handle_failed_steps" /\ db_error = 0) =>
        /\ ~handler_raised
        /\ data.kind = "list"
        /\ Len(data.rows) = Cardinality(FailedStepIds)
        /\ \A k \in 1..Len(data.rows) :
              \E i \in FailedStepIds : data.rows[k] = RecordOfStep(i)
        /\ \A i \in FailedStepIds :
              Occurrences(data.rows, RecordOfStep(i)) =
                 Cardinality({j \in FailedStepIds : RecordOfStep(j) = RecordOfStep(i)})
        /\ \A k, l \in 1..Len(data.rows) :
              k < l =>
                 \/ NameBefore(data.rows[k].scenario, data.rows[l].scenario)
                 \/ /\ data.rows[k].scenario = data.rows[l].scenario
                    /\ data.rows[k].step_number <= data.rows[l].step_number

\* failed steps of the scenario created second come first, because its name
\* sorts first; a step marked "failed" in lower case is left out
C13_Witness ==
    /\ op = "handle_failed_steps"
    /\ db_error = 0
    /\ Len(scenarios) = 2
    /\ scenarios[1].name = "Beta"
    /\ scenarios[2].name = "Alpha"
    /\ \E i \in 1..Len(steps) : steps[i].status = "failed"
    /\ Len(data.rows) >= 3
    /\ data.rows[1].scenario = "Alpha"
    /\ data.rows[Len(data.rows)].scenario = "Beta"
    /\ data.rows[Len(data.rows)].step_number = 2

(***************************************************************************)
(* Claims about the question endpoint (under SpecAsk)                      *)
(***************************************************************************)
\* the refusal, which names the supported topic areas
RefusalText ==
    <<"I didn't quite understand that. Try asking about scenarios, defects, failed steps, or missing proofs.">>

ApologyText ==
    <<"Sorry, something went wrong processing your question. Please try again.">>

Unreachable == {"timeout", "connection"}

\* C14 as stated: a question that maps to no supported intent gets the
\* refusal, and the refusal is not what the user gets when the external
\* service is unreachable or times out.
C14_Original ==
    op = "ask" =>
        /\ (norm_outcome = "ok" /\ detected = UNKNOWN) => response = RefusalText
        /\ (norm_outcome \in Unreachable \/ explain_outcome \in Unreachable)
              => response # RefusalText

\* C14 amended: a question that maps to no supported intent gets the
\* refusal (the apology when the database connection cannot be opened), and
\* only such a question gets it.  The refusal differs from what the user
\* gets when the renderer's service call is unreachable or times out; when
\* the normalizer's service call fails in any way the intent is UNKNOWN and
\* the user gets the same refusal.
C14_Refusal ==
    op = "ask" =>
        /\ (detected = UNKNOWN /\ stages[1]) => response = RefusalText
        /\ (detected = UNKNOWN /\ ~stages[1]) => response = ApologyText
        /\ response = RefusalText => detected = UNKNOWN
        /\ norm_outcome \in FailureKinds => detected = UNKNOWN
        /\ explain_outcome = "timeout" =>
              response = <<"AI is taking too long to respond. Please try again.">>
        /\ explain_outcome = "connection" =>
              response = <<"Cannot connect to AI service. Make sure Ollama is running.">>

\* the service answered the normalizer with words that are no label, and the
\* question was refused
C14_Witness ==
    /\ op = "ask"
    /\ norm_outcome = "ok"
    /\ raw = Ex_Words
    /\ detected = UNKNOWN
    /\ stages = <<TRUE, FALSE, FALSE>>
    /\ response = RefusalText

\* C15: whatever the external service and the storage layer do while a
\* question is processed, no exception leaves ask and the response is a
\* non-empty message.
C15_NeverFatal ==
    op = "ask" =>
        /\ ~ask_raised
        /\ response # <<>>

(***************************************************************************)
(* Claims about the size and the eviction of the cache (under SpecCache)   *)
(***************************************************************************)
\* the n prompts used most recently
LatestUsed(n) ==
    {uses[i] : i \in {i \in 1..Len(uses) : i > Len(uses) - n}}

\* C16: the cache never holds more than its maximum number of entries
\* (maxsize, 100 in explainer.py, CacheMaxSize here), and what it holds are
\* the prompts used most recently, a hit counting as a use: a new prompt put
\* into a full cache evicts the least recently used entry, never the entry
\* just looked up or inserted.
C16_BoundedLRU ==
    /\ Len(cache) <= CacheMaxSize
    /\ \A i, j \in 1..Len(cache) : i # j => cache[i].key # cache[j].key
    /\ CachedPrompts(cache) = LatestUsed(CacheMaxSize)
    /\ (op = "explain" /\ Truthy(explain_req.data)) =>
          PromptOf(explain_req) \in CachedPrompts(cache)

\* more prompts were used than the cache holds, and the last call was a hit
\* on an entry that a first-in-first-out cache would have evicted
C16_Witness ==
    /\ op = "explain"
    /\ ~explain_called
    /\ Len(cache) = CacheMaxSize
    /\ Len(uses) > CacheMaxSize
    /\ \E a \in answers :
          /\ a.req = explain_req
          /\ a.text = explained
    /\ service_calls > CacheMaxSize

(***************************************************************************)
(* Claims about concurrent calls (under SpecThreads)                       *)
(***************************************************************************)
EntriesFor(c, prompt) == {i \in 1..Len(c) : c[i].key[2] = prompt}

\* two calls that both missed on the same prompt have both returned
BothMissed ==
    /\ \A t \in Threads : threads[t].pc = "done" /\ threads[t].called
    /\ threads[1].req = threads[2].req

InFlight(t) == threads[t].pc = "calling"

FailedCall ==
    /\ op = "explain"
    /\ explain_called
    /\ explain_outcome # "ok"

\* C19: there is no retry: one explain call sends at most one request to
\* the service and a failed call is reported once, by its message; the
\* caller may ask again, that is, the next call with the same (question,
\* intent, data) after a failed call sends a new request to the service.
C19_NoRetryReask ==
    [][/\ service_calls' <= service_calls + 1
       /\ FailedCall' => explained' # <<>>
       /\ (FailedCall /\ op' = "explain" /\ explain_req' = explain_req) =>
             explain_called'
      ]_vars

(***************************************************************************)
(* Claims about the order of the stages of ask (under SpecAsk)             *)
(***************************************************************************)
\* what the retrieval handler of a supported label returns on the database
HandlerOf(intent) ==
    IF intent = LIST_SCENARIOS THEN handle_list_scenarios(db_error).value
    ELSE IF intent = MOST_DEFECTS_SCENARIO
         THEN handle_most_defects_scenario(db_error).value
    ELSE IF intent = OPEN_DEFECTS THEN handle_open_defects(db_error).value
    ELSE IF intent = FAILED_STEPS THEN handle_failed_steps(db_error).value
    ELSE handle_no_proof_steps(db_error).value

\* C20: a non-empty question goes through normalize, validate, retrieve and
\* render in this order, each stage working on what the one before produced:
\* the intent is the validation of the normalizer's text; a handler runs only
\* for one of the five supported labels and it is the handler of that label;
\* the renderer is called, with the question, the intent and the handler's
\* data, only after the handler returned non-empty data, and sends a request
\* to the service only then; an UNKNOWN intent causes no retrieval and no
\* renderer call.
C20_StageOrder ==
    op = "ask" =>
       /\ detected = detect_intent(detect_arg)
       /\ stages[2] =>
             /\ stages[1]
             /\ detected \in INTENTS
             /\ data = HandlerOf(detected)
       /\ ~stages[2] => data = NoneData /\ ~stages[3]
       /\ stages[3] =>
             /\ stages[2]
             /\ Truthy(data)
             /\ explain_req = Request(ask_question, detected, data)
       /\ explain_called => stages[3]
       /\ detected = UNKNOWN => ~stages[2] /\ ~stages[3] /\ ~explain_called

\* a question went through all four stages: the handler of the label with
\* the most defects found a scenario and the renderer asked the service
C20_Witness ==
    /\ op = "ask"
    /\ stages = <<TRUE, TRUE, TRUE>>
    /\ detected = MOST_DEFECTS_SCENARIO
    /\ data.kind = "dict"
    /\ explain_called
    /\ response = explained

(***************************************************************************)
(* Claims about the two definitions of the vocabulary (under SpecIntent)   *)
(***************************************************************************)
\* detect_intent was called with the result of normalize_question
DetectedNormalized == op = "detect" /\ norm_outcome # "none"

\* C21: the two definitions of the intent vocabulary agree: VALID_INTENTS of
\* the normalizer equals the key set of INTENTS the validator uses, so
\* detect_intent returns every result of normalize_question unchanged, a
\* label or UNKNOWN, and every label the normalizer accepts has a retrieval
\* branch in ask.
C21_VocabularyAgrees ==
    /\ VALID_INTENTS = INTENTS
    /\ \A label \in VALID_INTENTS : HasBranch(label)
    /\ DetectedNormalized =>
          /\ detect_arg = normalized
          /\ detected = normalized
          /\ detected # UNKNOWN => HasBranch(detected)

\* a text that is no label was sanitized into one by the normalizer, and the
\* validator let the label through
C21_Witness ==
    /\ DetectedNormalized
    /\ norm_outcome = "ok"
    /\ raw \notin VALID_INTENTS
    /\ normalized \in VALID_INTENTS
    /\ detected = normalized

(***************************************************************************)
(* Claims about defects without a scenario row (under SpecOrphans)         *)
(***************************************************************************)
\* the scenario id with the most defects has no row in scenarios
TopGroupOrphan ==
    /\ defects # <<>>
    /\ \A i \in 1..Len(scenarios) : scenarios[i].id # TopScenarioId

\* C22: in every state of the store, also when the scenario id with the most
\* defects has no scenario row, handle_most_defects_scenario raises nothing
\* and returns either the empty result or one record whose name is that of
\* an existing scenario and whose defect_count is the number of defect rows
\* with that scenario's id; when the top group has no scenario row the
\* result is empty.
C22_MostDefectsTotal ==
    op = "handle_most_defects_scenario" =>
       /\ ~handler_raised
       /\ \/ data.kind = "none"
          \/ /\ data.kind = "dict"
             /\ Len(data.rows) = 1
             /\ \E i \in 1..Len(scenarios) :
                   /\ data.rows[1].name = scenarios[i].name
                   /\ data.rows[1].defect_count = DefectsOf(scenarios[i].id)
       /\ TopGroupOrphan => data.kind = "none"

\* a scenario with a defect exists, but more defects carry an id without a
\* scenario row: the handler answered with the empty result
C22_Witness ==
    /\ op = "handle_most_defects_scenario"
    /\ db_error = 0
    /\ TopGroupOrphan
    /\ \E i \in 1..Len(scenarios) : DefectsOf(scenarios[i].id) > 0
    /\ data.kind = "none"

====
